---- MODULE Spec2Model ----
(***************************************************************************)
(* Model of the CONLL-U annotation pipeline of lab_6_pipeline/pipeline.py: *)
(* CorpusManager (dataset validation and loading), MystemTagConverter,     *)
(* ConlluToken / ConlluSentence and MorphologicalAnalysisPipeline, and of   *)
(* Crawler and CrawlerRecursive of lab_5_scrapper/scrapper.py.             *)
(*                                                                         *)
(* A Python str is a sequence of one-character strings.  A raised          *)
(* exception is a value [exc |-> <name>]; a normal return is               *)
(* [exc |-> "none", val |-> <value>].                                      *)
(***************************************************************************)
EXTENDS Integers, Sequences, FiniteSets, TLC

VARIABLES
    \* ---- CorpusManager and the directory it is pointed at
    path_kind,      \* "missing" | "file" | "dir": what path_to_raw_txt_data is
    dir_files,      \* the files of the directory: [stem, kind, content]
    cm_pc,          \* "new" | "constructed" | "failed"
    cm_error,       \* the exception CorpusManager.__init__ ended with, or "none"
    storage,        \* CorpusManager._storage, a dict in insertion order
    \* ---- MystemTagConverter
    mapping_info,   \* MystemTagConverter._mapping_info, <<>> before it is loaded
    \* ---- the functions called on their own
    u_in,           \* the arguments of the call
    u_pc,           \* "off" | "ready" | the name of the function that returned
    u_ret,          \* what the call returned or raised
    \* ---- MorphologicalAnalysisPipeline.run
    run_pc,         \* "off" | "process" | "analyze" | "to_cleaned" | "to_conllu" |
                    \* "to_conllu_tags" | "done" | "aborted"
    run_todo,       \* the article ids the for loop has not reached yet
    run_article,    \* the article id of the current iteration, 0 before the first
    run_error,      \* the exception run ended with, or "none"
    run_sentences,  \* per article id: what split_by_sentence returned for its text
    conllu_sentences, \* per article id: what set_conllu_sentences stored
    written,        \* the output files on disk: <<article id, kind>>
    \* ---- Crawler, CrawlerRecursive
    crawler_pc,     \* "off" | "seed" | "fetch" | "links" | "done" | "failed"
    crawler_error,  \* the exception find_articles ended with, or "none"
    num_articles,   \* config.get_num_articles()
    seeds_left,     \* how many seed urls the for loop has not reached yet
    links_left,     \* how many links of the fetched page the loop has not reached yet
    urls,           \* crawler.urls
    article_urls,   \* CrawlerRecursive.article_urls
    last_index,     \* CrawlerRecursive.last_index
    crawler_data    \* crawler_data.json: <<>> or <<what was saved last>>

vars == <<path_kind, dir_files, cm_pc, cm_error, storage, mapping_info, u_in, u_pc, u_ret,
          run_pc, run_todo, run_article, run_error, run_sentences, conllu_sentences,
          written, crawler_pc, crawler_error, num_articles, seeds_left, links_left, urls,
          article_urls, last_index, crawler_data>>

crawler_vars ==
    <<crawler_pc, crawler_error, num_articles, seeds_left, links_left, urls, article_urls,
      last_index, crawler_data>>
corpus_vars == <<path_kind, dir_files, cm_pc, cm_error, storage>>
unit_vars == <<mapping_info, u_in, u_pc, u_ret>>
run_vars ==
    <<run_pc, run_todo, run_article, run_error, run_sentences, conllu_sentences, written>>

-----------------------------------------------------------------------------
(* Bounds *)

\* the most files the directory holds
MaxFiles == 4

-----------------------------------------------------------------------------
(* Python str and list helpers *)

\* the characters the model uses, in code-point order; a character outside
\* ASCII is written as its code point: "u2014" is the em dash
CodeOrder ==
    <<"\t", "\n", " ", "#", "(", ")", ",", "-", ".", "/",
      "0", "1", "2", "3", "4", "5", "6", "7", "8", "9", ":", "=",
      "A", "B", "C", "D", "E", "F", "G", "H", "I", "J", "K", "L", "M",
      "N", "O", "P", "Q", "R", "S", "T", "U", "V", "W", "X", "Y", "Z", "_",
      "a", "b", "c", "d", "e", "f", "g", "h", "i", "j", "k", "l", "m",
      "n", "o", "p", "q", "r", "s", "t", "u", "v", "w", "x", "y", "z", "|",
      "u00AB", "u00BB", "u2014">>

\* ord(c), up to an order-preserving renumbering
Ord(c) == CHOOSE i \in 1..Len(CodeOrder) : CodeOrder[i] = c

Range(s) == {s[i] : i \in 1..Len(s)}

\* str < str: lexicographic by code point, a proper prefix first
RECURSIVE StrLess(_, _)
StrLess(a, b) ==
    IF b = <<>> THEN FALSE
    ELSE IF a = <<>> THEN TRUE
    ELSE IF Head(a) = Head(b) THEN StrLess(Tail(a), Tail(b))
    ELSE Ord(Head(a)) < Ord(Head(b))

\* sorted() of a list of int: insertion into the sorted rest
RECURSIVE InsertInt(_, _)
InsertInt(x, s) ==
    IF s = <<>> THEN <<x>>
    ELSE IF x < Head(s) THEN <<x>> \o s
    ELSE <<Head(s)>> \o InsertInt(x, Tail(s))

RECURSIVE SortedInts(_)
SortedInts(s) ==
    IF s = <<>> THEN <<>>
    ELSE InsertInt(s[Len(s)], SortedInts(SubSeq(s, 1, Len(s) - 1)))

\* sorted() of a list of str
RECURSIVE InsertStr(_, _)
InsertStr(x, s) ==
    IF s = <<>> THEN <<x>>
    ELSE IF StrLess(x, Head(s)) THEN <<x>> \o s
    ELSE <<Head(s)>> \o InsertStr(x, Tail(s))

RECURSIVE SortedStrs(_)
SortedStrs(s) ==
    IF s = <<>> THEN <<>>
    ELSE InsertStr(s[Len(s)], SortedStrs(SubSeq(s, 1, Len(s) - 1)))

\* sep.join(parts)
RECURSIVE Join(_, _)
Join(parts, sep) ==
    IF parts = <<>> THEN <<>>
    ELSE IF Len(parts) = 1 THEN parts[1]
    ELSE parts[1] \o sep \o Join(Tail(parts), sep)

\* the longest prefix of s with no character of stop: re.match('^[^...]*', s).group(0)
RECURSIVE PrefixWithout(_, _)
PrefixWithout(s, stop) ==
    IF s = <<>> \/ Head(s) \in stop THEN <<>>
    ELSE <<Head(s)>> \o PrefixWithout(Tail(s), stop)

\* s cut at every character of seps, empty pieces kept: re.split / str.split
RECURSIVE SplitOn(_, _)
SplitOn(s, seps) ==
    LET first == PrefixWithout(s, seps)
    IN  IF Len(first) = Len(s) THEN <<first>>
        ELSE <<first>> \o SplitOn(SubSeq(s, Len(first) + 2, Len(s)), seps)

\* filter(None, parts): the non-empty strings of parts
RECURSIVE NonEmpty(_)
NonEmpty(parts) ==
    IF parts = <<>> THEN <<>>
    ELSE (IF Head(parts) = <<>> THEN <<>> ELSE <<Head(parts)>>) \o NonEmpty(Tail(parts))

\* all orders in which the elements of the finite set S can be listed
RECURSIVE Orders(_)
Orders(S) ==
    IF S = {} THEN {<<>>}
    ELSE UNION {{<<x>> \o o : o \in Orders(S \ {x})} : x \in S}

-----------------------------------------------------------------------------
(* The directory *)

\* the digits a file name starts with: 1_raw.txt, 2_meta.json, 01_raw.txt
Stems == {<<1>>, <<2>>, <<3>>, <<0, 1>>}
Kinds == {"raw", "meta"}
\* what a file holds; the empty string is a zero-length file
Contents == {<<>>, <<"a">>, <<"b">>}

FileName(f) == <<f.stem, f.kind>>

\* int() of a string of decimal digits
RECURSIVE ParseInt(_)
ParseInt(digits) ==
    IF digits = <<>> THEN 0
    ELSE 10 * ParseInt(SubSeq(digits, 1, Len(digits) - 1)) + digits[Len(digits)]

\* core_utils.article.article.get_article_id_from_filepath
get_article_id_from_filepath(f) == ParseInt(f.stem)

\* Path.glob('*_meta.json') and Path.glob('*_raw.txt'), as sets
Glob(files, kind) == {f \in files : f.kind = kind}

\* a dict in insertion order: d[k] = v
DictPut(d, k, v) ==
    IF \E i \in 1..Len(d) : d[i].key = k
    THEN [i \in 1..Len(d) |-> IF d[i].key = k THEN [key |-> k, value |-> v] ELSE d[i]]
    ELSE Append(d, [key |-> k, value |-> v])

DictKeys(d) == {d[i].key : i \in 1..Len(d)}
DictGet(d, k) == (CHOOSE i \in 1..Len(d) : d[i].key = k)
DictValue(d, k) == d[DictGet(d, k)].value

\* core_utils.article.io.from_raw: the Article of a raw file
from_raw(f) == [article_id |-> get_article_id_from_filepath(f), text |-> f.content]

-----------------------------------------------------------------------------
(* CorpusManager *)

\* sorted(get_article_id_from_filepath(f) for f in files)
SortedIds(files) ==
    LET RECURSIVE Ids(_)
        Ids(order) == IF order = <<>> THEN <<>>
                      ELSE <<get_article_id_from_filepath(Head(order))>> \o Ids(Tail(order))
    IN  SortedInts(Ids(CHOOSE o \in Orders(files) : TRUE))

\* max(ids) of a sorted non-empty list
MaxOf(ids) == ids[Len(ids)]

\* [num for num in range(1, n + 1)]
correct_range(n) == [i \in 1..n |-> i]

\* meta_files_idx != correct_range != raw_files_idx: Python chains the comparison
LayoutRejected(meta_files_idx, raw_files_idx) ==
    /\ meta_files_idx /= correct_range(MaxOf(meta_files_idx))
    /\ correct_range(MaxOf(meta_files_idx)) /= raw_files_idx

\* _validate_dataset without the comparison of the two counts
ValidateDatasetNoCount(kind, files) ==
    LET meta_files == Glob(files, "meta")
        raw_files == Glob(files, "raw")
    IN  IF kind = "missing" THEN "FileNotFoundError"
        ELSE IF kind /= "dir" THEN "NotADirectoryError"
        ELSE IF meta_files = {} \/ raw_files = {} THEN "EmptyDirectoryError"
        ELSE IF LayoutRejected(SortedIds(meta_files), SortedIds(raw_files))
             THEN "InconsistentDatasetError"
        ELSE IF \E f \in meta_files \cup raw_files : Len(f.content) = 0
             THEN "InconsistentDatasetError"
        ELSE "none"

\* CorpusManager._validate_dataset: the exception it raises, or "none"
ValidateDataset(kind, files) ==
    LET meta_files == Glob(files, "meta")
        raw_files == Glob(files, "raw")
    IN  IF kind = "missing" THEN "FileNotFoundError"
        ELSE IF kind /= "dir" THEN "NotADirectoryError"
        ELSE IF meta_files = {} \/ raw_files = {} THEN "EmptyDirectoryError"
        ELSE IF Cardinality(meta_files) /= Cardinality(raw_files)
             THEN "InconsistentDatasetError"
        ELSE IF LayoutRejected(SortedIds(meta_files), SortedIds(raw_files))
             THEN "InconsistentDatasetError"
        ELSE IF \E f \in meta_files \cup raw_files : Len(f.content) = 0
             THEN "InconsistentDatasetError"
        ELSE "none"

\* _scan_dataset that keys each article by its place in the enumeration
RECURSIVE ScanDatasetByPlace(_, _)
ScanDatasetByPlace(order, d) ==
    IF order = <<>> THEN d
    ELSE ScanDatasetByPlace(Tail(order), DictPut(d, Len(d) + 1, from_raw(Head(order))))

\* CorpusManager._scan_dataset over the raw files in the order glob yields them
RECURSIVE ScanDataset(_, _)
ScanDataset(order, d) ==
    IF order = <<>> THEN d
    ELSE ScanDataset(Tail(order),
                     DictPut(d, from_raw(Head(order)).article_id, from_raw(Head(order))))

\* CorpusManager.get_articles
get_articles == storage

InitCorpus ==
    /\ path_kind \in {"missing", "file", "dir"}
    /\ dir_files = {}
    /\ cm_pc = "new"
    /\ cm_error = "none"
    /\ storage = <<>>

\* the environment puts one more file into the directory before the run
CreateFile ==
    /\ cm_pc = "new"
    /\ path_kind = "dir"
    /\ Cardinality(dir_files) < MaxFiles
    /\ \E stem \in Stems, kind \in Kinds, content \in Contents :
          /\ \A f \in dir_files : FileName(f) /= <<stem, kind>>
          /\ dir_files' = dir_files \cup {[stem |-> stem, kind |-> kind, content |-> content]}
    /\ UNCHANGED <<path_kind, cm_pc, cm_error, storage>>

\* CorpusManager.__init__: _validate_dataset, then _scan_dataset
Construct ==
    /\ cm_pc = "new"
    /\ LET err == ValidateDataset(path_kind, dir_files)
       IN  IF err /= "none"
           THEN /\ cm_pc' = "failed"
                /\ cm_error' = err
                /\ storage' = <<>>
           ELSE /\ cm_pc' = "constructed"
                /\ cm_error' = "none"
                /\ \E order \in Orders(Glob(dir_files, "raw")) :
                      storage' = ScanDataset(order, <<>>)
    /\ UNCHANGED <<path_kind, dir_files>>

RunOff ==
    /\ run_pc = "off"
    /\ run_todo = <<>>
    /\ run_article = 0
    /\ run_error = "none"
    /\ run_sentences = <<>>
    /\ conllu_sentences = <<>>
    /\ written = {}

UnitOff ==
    /\ mapping_info = <<>>
    /\ u_in = <<>>
    /\ u_pc = "off"
    /\ u_ret = <<>>

\* no crawler is constructed
CrawlerOff ==
    /\ crawler_pc = "off"
    /\ crawler_error = "none"
    /\ num_articles = 0
    /\ seeds_left = 0
    /\ links_left = 0
    /\ urls = <<>>
    /\ article_urls = <<>>
    /\ last_index = 0
    /\ crawler_data = <<>>

NextCorpus ==
    \/ CreateFile /\ UNCHANGED <<unit_vars, run_vars, crawler_vars>>
    \/ Construct /\ UNCHANGED <<unit_vars, run_vars, crawler_vars>>

\* a CorpusManager about to be constructed, nothing else in use
InitCorpusOnly == InitCorpus /\ UnitOff /\ RunOff /\ CrawlerOff

SpecCorpus == InitCorpusOnly /\ [][NextCorpus]_vars

-----------------------------------------------------------------------------
(* CorpusManager: the claims *)

RawIdx == SortedIds(Glob(dir_files, "raw"))
MetaIdx == SortedIds(Glob(dir_files, "meta"))
NumRaw == Cardinality(Glob(dir_files, "raw"))
NumMeta == Cardinality(Glob(dir_files, "meta"))

\* the identifiers of one kind are exactly 1..max_id
Contiguous(idx) == idx = [i \in 1..MaxOf(idx) |-> i]

\* C1: with equal non-zero counts of raw and metadata files, construction fails
\* with InconsistentDatasetError whenever the raw identifiers or the metadata
\* identifiers, either kind on its own, are not the contiguous range 1..max_id.
C1_GapInEitherKindRejected ==
    (/\ cm_pc \in {"constructed", "failed"}
     /\ path_kind = "dir"
     /\ NumRaw = NumMeta /\ NumRaw > 0
     /\ (~Contiguous(RawIdx) \/ ~Contiguous(MetaIdx)))
    => (cm_pc = "failed" /\ cm_error = "InconsistentDatasetError")

\* C2 as stated: any difference between the two counts, a count of zero included,
\* ends construction with InconsistentDatasetError and nothing in storage.
C2_CountMismatchAlwaysInconsistent ==
    (cm_pc \in {"constructed", "failed"} /\ path_kind = "dir" /\ NumRaw /= NumMeta)
    => (cm_pc = "failed" /\ cm_error = "InconsistentDatasetError" /\ storage = <<>>)

\* C2 amended: when the two counts differ, construction fails and nothing is
\* loaded into storage; the error is InconsistentDatasetError when both counts
\* are non-zero and EmptyDirectoryError when one of them is zero.
C2_CountMismatchFails ==
    (cm_pc \in {"constructed", "failed"} /\ path_kind = "dir" /\ NumRaw /= NumMeta)
    => /\ cm_pc = "failed"
       /\ storage = <<>>
       /\ (NumRaw > 0 /\ NumMeta > 0) => cm_error = "InconsistentDatasetError"
       /\ (NumRaw = 0 \/ NumMeta = 0) => cm_error = "EmptyDirectoryError"

C2_Witness ==
    /\ cm_pc = "failed"
    /\ path_kind = "dir"
    /\ NumRaw = 2 /\ NumMeta = 1
    /\ cm_error = "InconsistentDatasetError"
    /\ storage = <<>>

\* N paired artifacts, N >= 1, identifiers exactly 1..N, no empty file
ValidCorpus ==
    /\ path_kind = "dir"
    /\ NumRaw = NumMeta /\ NumRaw >= 1
    /\ RawIdx = [i \in 1..NumRaw |-> i]
    /\ MetaIdx = [i \in 1..NumMeta |-> i]
    /\ \A f \in dir_files : f.content /= <<>>

\* C6: on a valid corpus of N pairs construction succeeds and get_articles has
\* exactly N entries, keyed 1..N, each the document of the raw file with that
\* identifier, whatever the order in which the files are enumerated.
C6_ValidCorpusLoaded ==
    (cm_pc \in {"constructed", "failed"} /\ ValidCorpus)
    => /\ cm_pc = "constructed"
       /\ Len(get_articles) = NumRaw
       /\ DictKeys(get_articles) = 1..NumRaw
       /\ \A f \in Glob(dir_files, "raw") :
             DictValue(get_articles, ParseInt(f.stem))
                 = [article_id |-> ParseInt(f.stem), text |-> f.content]

\* two documents, enumerated with the second identifier first
C6_Witness ==
    /\ cm_pc = "constructed"
    /\ ValidCorpus
    /\ NumRaw = 2
    /\ get_articles[1].key = 2
    /\ DictValue(get_articles, 1).text /= DictValue(get_articles, 2).text

-----------------------------------------------------------------------------
(* String literals of the source and of the inputs *)

s_NOUN == <<"N", "O", "U", "N">>
s_PRON == <<"P", "R", "O", "N">>
s_ADJ == <<"A", "D", "J">>
s_NUM == <<"N", "U", "M">>
s_VERB == <<"V", "E", "R", "B">>
s_DET == <<"D", "E", "T">>
s_ADP == <<"A", "D", "P">>
s_PUNCT == <<"P", "U", "N", "C", "T">>
s_X == <<"X">>
s_PART == <<"P", "A", "R", "T">>
s_PR == <<"P", "R">>
s_INTJ == <<"I", "N", "T", "J">>
s_CONJ == <<"C", "O", "N", "J">>
s_COM == <<"C", "O", "M">>
s_ADVPRO == <<"A", "D", "V", "P", "R", "O">>
s_ADV == <<"A", "D", "V">>
s_Animacy == <<"A", "n", "i", "m", "a", "c", "y">>
s_Case == <<"C", "a", "s", "e">>
s_Gender == <<"G", "e", "n", "d", "e", "r">>
s_Number == <<"N", "u", "m", "b", "e", "r">>
s_Tense == <<"T", "e", "n", "s", "e">>
s_POS == <<"P", "O", "S">>
s_S == <<"S">>
s_V == <<"V">>
s_APRO == <<"A", "P", "R", "O">>
s_Q == <<"Q">>
s_nom == <<"n", "o", "m">>
s_m == <<"m">>
s_sg == <<"s", "g">>
s_zz == <<"z", "z">>
s_Nom == <<"N", "o", "m">>
s_Masc == <<"M", "a", "s", "c">>
s_Sing == <<"S", "i", "n", "g">>
s_Anim == <<"A", "n", "i", "m">>
s_root == <<"r", "o", "o", "t">>

-----------------------------------------------------------------------------
(* MystemTagConverter *)

Ok(v) == [exc |-> "none", val |-> v]
Raise(e) == [exc |-> e]

\* the source tokens convert_morphological_tags answers '' for
NoFeatureTokens == {s_PART, s_PR, s_INTJ, s_CONJ, s_COM, s_ADVPRO, s_ADV}

\* cats: the feature categories of each target part of speech, in the order written
cats ==
    (s_NOUN :> <<s_Animacy, s_Case, s_Gender, s_Number>>) @@
    (s_PRON :> <<s_Animacy, s_Case, s_Gender, s_Number>>) @@
    (s_ADJ :> <<s_Case, s_Gender, s_Number>>) @@
    (s_NUM :> <<s_Case, s_Number, s_Animacy>>) @@
    (s_VERB :> <<s_Tense, s_Number, s_Gender>>)

\* re.match('^[^,|=]*', tags).group(0)
PosToken(tags) == PrefixWithout(tags, {",", "|", "="})

\* MystemTagConverter.convert_pos
convert_pos(mapping, tags) ==
    IF s_POS \notin DOMAIN mapping THEN Raise("KeyError")
    ELSE IF PosToken(tags) \notin DOMAIN mapping[s_POS] THEN Raise("KeyError")
    ELSE Ok(mapping[s_POS][PosToken(tags)])

\* re.split(r',|=', tag.split('|')[0]) of each piece, the non-empty results chained
RECURSIVE ActualTagsOf(_)
ActualTagsOf(pieces) ==
    IF pieces = <<>> THEN <<>>
    ELSE NonEmpty(SplitOn(PrefixWithout(Head(pieces), {"|"}), {",", "="}))
         \o ActualTagsOf(Tail(pieces))

\* actual_tags: re.findall("[^()]+", tags) cut into atomic tag tokens
ActualTags(tags) == ActualTagsOf(NonEmpty(SplitOn(tags, {"(", ")"})))

\* the inner loop: the f'{cat}={ud_tag}' of one tag under every category of cat_list
RECURSIVE TagFeatures(_, _, _)
TagFeatures(mapping, tag, cat_list) ==
    IF cat_list = <<>> THEN <<>>
    ELSE LET cat == Head(cat_list)
             found == tag \in DOMAIN mapping[cat] /\ mapping[cat][tag] /= <<>>
         IN  (IF found THEN <<cat \o <<"=">> \o mapping[cat][tag]>> ELSE <<>>)
             \o TagFeatures(mapping, tag, Tail(cat_list))

\* the outer loop: ud_tags in the order the loops append them
RECURSIVE UdTags(_, _, _)
UdTags(mapping, actual_tags, cat_list) ==
    IF actual_tags = <<>> THEN <<>>
    ELSE TagFeatures(mapping, Head(actual_tags), cat_list)
         \o UdTags(mapping, Tail(actual_tags), cat_list)

\* '|'.join(ud_tags): the features in the order they were appended
JoinUnsorted(ud_tags) == Join(ud_tags, <<"|">>)

\* '|'.join(sorted(ud_tags))
JoinSorted(ud_tags) == Join(SortedStrs(ud_tags), <<"|">>)

\* the features looked up under the categories of NOUN when the part of speech
\* has none of its own
ConvertTagsDefaultCats(mapping, tags) ==
    IF PosToken(tags) \in NoFeatureTokens THEN Ok(<<>>)
    ELSE LET actual_tags == ActualTags(tags)
             ud_pos == convert_pos(mapping, tags)
             cat_list == IF ud_pos.val \in DOMAIN cats THEN cats[ud_pos.val] ELSE cats[s_NOUN]
         IN  IF ud_pos.exc /= "none" THEN ud_pos
             ELSE IF actual_tags = <<>> THEN Ok(<<>>)
             ELSE IF \E i \in 1..Len(cat_list) : cat_list[i] \notin DOMAIN mapping
                  THEN Raise("KeyError")
             ELSE Ok(JoinSorted(UdTags(mapping, actual_tags, cat_list)))

\* MystemTagConverter.convert_morphological_tags
convert_morphological_tags(mapping, tags) ==
    IF PosToken(tags) \in NoFeatureTokens THEN Ok(<<>>)
    ELSE LET actual_tags == ActualTags(tags)
             ud_pos == convert_pos(mapping, tags)
         IN  IF ud_pos.exc /= "none" THEN ud_pos
             ELSE IF actual_tags = <<>> THEN Ok(<<>>)
             \* for cat in cats.get(ud_pos): None is not iterable
             ELSE IF ud_pos.val \notin DOMAIN cats THEN Raise("TypeError")
             \* self._mapping[cat] of a category the table lacks
             ELSE IF \E i \in 1..Len(cats[ud_pos.val]) :
                        cats[ud_pos.val][i] \notin DOMAIN mapping
                  THEN Raise("KeyError")
             ELSE Ok(JoinSorted(UdTags(mapping, actual_tags, cats[ud_pos.val])))

-----------------------------------------------------------------------------
(* The mapping tables and the analyzer tags the converter is called on *)

\* the most delimiter-and-grammeme parts that follow the leading token of a tag
MaxTagParts == 2

\* a table with every category
FullTable ==
    (s_POS :> ((s_S :> s_NOUN) @@ (s_V :> s_VERB) @@ (s_NUM :> s_NUM) @@
               (s_APRO :> s_DET) @@ (s_PR :> s_ADP))) @@
    (s_Case :> (s_nom :> s_Nom)) @@
    (s_Gender :> (s_m :> s_Masc)) @@
    (s_Number :> (s_sg :> s_Sing)) @@
    (s_Animacy :> (s_m :> s_Anim)) @@
    (s_Tense :> (s_zz :> <<>>))

\* a table without Tense, with one grammeme under two categories and with X
\* as the target of two source tokens
OtherTable ==
    (s_POS :> ((s_S :> s_NOUN) @@ (s_V :> s_VERB) @@ (s_NUM :> s_NUM) @@
               (s_APRO :> s_X) @@ (s_PR :> s_X))) @@
    (s_Case :> (s_nom :> s_Nom)) @@
    (s_Gender :> (s_m :> s_Masc)) @@
    (s_Number :> (s_sg :> s_Sing)) @@
    (s_Animacy :> (s_sg :> s_Anim))

MappingTables == {FullTable, OtherTable}

PosTokens == {<<>>, s_S, s_V, s_NUM, s_APRO, s_PR, s_Q}
Delimiters == {<<",">>, <<"=">>, <<"|">>, <<"(">>, <<")">>}
Grammemes == {<<>>, s_nom, s_m, s_sg, s_zz}

\* the strings made of n parts, each a delimiter followed by a grammeme or nothing
RECURSIVE TagTails(_)
TagTails(n) ==
    IF n = 0 THEN {<<>>}
    ELSE {d \o g \o rest : d \in Delimiters, g \in Grammemes, rest \in TagTails(n - 1)}

AnalyzerTags ==
    {p \o rest : p \in PosTokens, rest \in UNION {TagTails(n) : n \in 0..MaxTagParts}}

InitConverter ==
    /\ mapping_info \in MappingTables
    /\ u_in \in [tags : AnalyzerTags]
    /\ u_pc = "ready"
    /\ u_ret = <<>>

CallConvertPos ==
    /\ u_pc = "ready"
    /\ u_pc' = "convert_pos"
    /\ u_ret' = convert_pos(mapping_info, u_in.tags)
    /\ UNCHANGED <<mapping_info, u_in>>

CallConvertMorphologicalTags ==
    /\ u_pc = "ready"
    /\ u_pc' = "convert_morphological_tags"
    /\ u_ret' = convert_morphological_tags(mapping_info, u_in.tags)
    /\ UNCHANGED <<mapping_info, u_in>>

CorpusOff ==
    /\ path_kind = "missing"
    /\ dir_files = {}
    /\ cm_pc = "off"
    /\ cm_error = "none"
    /\ storage = <<>>

NextConverter ==
    \/ CallConvertPos /\ UNCHANGED <<corpus_vars, run_vars, crawler_vars>>
    \/ CallConvertMorphologicalTags /\ UNCHANGED <<corpus_vars, run_vars, crawler_vars>>

\* a converter with its table loaded, nothing else in use
InitConverterOnly == CorpusOff /\ RunOff /\ CrawlerOff /\ InitConverter

SpecConverter == InitConverterOnly /\ [][NextConverter]_vars

-----------------------------------------------------------------------------
(* MystemTagConverter: the claims *)

\* C4: convert_pos never raises on a tag whose leading part-of-speech token is
\* absent from the POS mapping; it answers the fallback label X.
C4_UnknownPosIsX ==
    (/\ u_pc = "convert_pos"
     /\ s_POS \in DOMAIN mapping_info
     /\ PosToken(u_in.tags) \notin DOMAIN mapping_info[s_POS])
    => u_ret = Ok(s_X)

\* the tag's part of speech resolves, to a target with no feature-category list
ResolvesWithoutCategories ==
    /\ s_POS \in DOMAIN mapping_info
    /\ PosToken(u_in.tags) \in DOMAIN mapping_info[s_POS]
    /\ mapping_info[s_POS][PosToken(u_in.tags)]
           \notin {s_NOUN, s_PRON, s_ADJ, s_NUM, s_VERB}

\* C7: convert_morphological_tags returns the empty feature string, without
\* raising, for every tag whose part of speech resolves to a target part of
\* speech that has no feature-category list.
C7_NoCategoriesGivesEmpty ==
    (u_pc = "convert_morphological_tags" /\ ResolvesWithoutCategories)
    => u_ret = Ok(<<>>)

\* the Category=Value pieces of a returned feature string
FeaturePieces(str) == IF str = <<>> THEN <<>> ELSE SplitOn(str, {"|"})
CategoryOf(piece) == PrefixWithout(piece, {"="})
Count(x, seq) == Cardinality({i \in 1..Len(seq) : seq[i] = x})

\* the pairs the two loops find for the call's arguments
PairsFound ==
    LET ud_pos == convert_pos(mapping_info, u_in.tags)
    IN  IF \/ PosToken(u_in.tags) \in NoFeatureTokens
           \/ ud_pos.exc /= "none"
           \/ ud_pos.val \notin DOMAIN cats
           \/ Range(cats[ud_pos.val]) \ DOMAIN mapping_info /= {}
        THEN <<>>
        ELSE UdTags(mapping_info, ActualTags(u_in.tags), cats[ud_pos.val])

\* C8: the feature string convert_morphological_tags returns is the
\* Category=Value pairs it found, joined with '|', in lexicographic order of the
\* category name.
C8_FeaturesInCategoryOrder ==
    (u_pc = "convert_morphological_tags" /\ u_ret.exc = "none")
    => LET pieces == FeaturePieces(u_ret.val)
       IN  /\ \A x \in Range(pieces) \cup Range(PairsFound) :
                 Count(x, pieces) = Count(x, PairsFound)
           /\ \A i \in 1..(Len(pieces) - 1) :
                 ~StrLess(CategoryOf(pieces[i + 1]), CategoryOf(pieces[i]))

\* Gender=Masc is found before Case=Nom and serialized after it
C8_Witness ==
    /\ u_pc = "convert_morphological_tags"
    /\ u_ret = Ok(s_Case \o <<"=">> \o s_Nom \o <<"|">> \o s_Gender \o <<"=">> \o s_Masc)
    /\ PairsFound = <<s_Gender \o <<"=">> \o s_Masc, s_Case \o <<"=">> \o s_Nom>>

-----------------------------------------------------------------------------
(* MorphologicalTokenDTO, ConlluToken *)

Whitespace == {" ", "\t", "\n"}
Digits == <<"0", "1", "2", "3", "4", "5", "6", "7", "8", "9">>

\* str.lstrip()
RECURSIVE LStrip(_)
LStrip(str) ==
    IF str /= <<>> /\ Head(str) \in Whitespace THEN LStrip(Tail(str)) ELSE str

\* str.rstrip()
RECURSIVE RStrip(_)
RStrip(str) ==
    IF str /= <<>> /\ str[Len(str)] \in Whitespace
    THEN RStrip(SubSeq(str, 1, Len(str) - 1))
    ELSE str

\* str.strip()
Strip(str) == RStrip(LStrip(str))

\* str.isdigit()
IsDigit(str) == str /= <<>> /\ \A i \in 1..Len(str) : str[i] \in Range(Digits)

\* str() of a non-negative int
RECURSIVE IntToStr(_)
IntToStr(n) ==
    IF n < 10 THEN <<Digits[n + 1]>>
    ELSE IntToStr(n \div 10) \o <<Digits[(n % 10) + 1]>>

\* MorphologicalTokenDTO(lemma, pos, tags)
MorphologicalTokenDTO(lemma, pos, tags) == [lemma |-> lemma, pos |-> pos, tags |-> tags]

\* ConlluToken(text) after set_position and set_morphological_parameters
ConlluToken(text, position, parameters) ==
    [text |-> text, position |-> position, parameters |-> parameters]

\* feats: the stored tags when they are asked for and not empty, else '_'
Feats(token, include_morphological_tags) ==
    IF include_morphological_tags /\ token.parameters.tags /= <<>>
    THEN token.parameters.tags
    ELSE <<"_">>

\* ConlluToken.get_conllu_text
token_get_conllu_text(token, include_morphological_tags) ==
    Join(<<IntToStr(token.position), token.text, token.parameters.lemma,
           token.parameters.pos, <<"_">>, Feats(token, include_morphological_tags),
           <<"0">>, s_root, <<"_">>, <<"_">>>>,
         <<"\t">>)

-----------------------------------------------------------------------------
(* MorphologicalAnalysisPipeline._process *)

\* token_info.get('analysis'): a missing key and an empty list are both falsy
HasAnalysis(token_info) == token_info.analysis /= <<>>

\* [token for token in analyze(...) if token['text'].strip()]
RECURSIVE KeptTokens(_)
KeptTokens(token_infos) ==
    IF token_infos = <<>> THEN <<>>
    ELSE (IF Strip(Head(token_infos).text) /= <<>> THEN <<Head(token_infos)>> ELSE <<>>)
         \o KeptTokens(Tail(token_infos))

\* the else branch with isdigit asked of the stripped text
FallbackPosStripped(token_text) ==
    IF Strip(token_text) = <<".">> THEN s_PUNCT
    ELSE IF IsDigit(Strip(token_text)) THEN s_NUM
    ELSE s_X

\* the else branch: the part of speech of a token with no analysis
FallbackPos(token_text) ==
    IF Strip(token_text) = <<".">> THEN s_PUNCT
    ELSE IF IsDigit(token_text) THEN s_NUM
    ELSE s_X

\* the body of the token loop: the parameters of one token, or what it raises
TokenParameters(mapping, token_info) ==
    IF HasAnalysis(token_info)
    THEN LET lemma == token_info.analysis[1].lex
             grammar_info == token_info.analysis[1].gr
             pos == convert_pos(mapping, grammar_info)
             tags == convert_morphological_tags(mapping, grammar_info)
         IN  IF pos.exc /= "none" THEN pos
             ELSE IF tags.exc /= "none" THEN tags
             ELSE Ok(MorphologicalTokenDTO(Strip(lemma), pos.val, tags.val))
    ELSE Ok(MorphologicalTokenDTO(Strip(token_info.text), FallbackPos(token_info.text), <<>>))

\* the token loop over the kept tokens of one sentence, from position idx on
RECURSIVE ProcessTokens(_, _, _)
ProcessTokens(mapping, tokens, idx) ==
    IF tokens = <<>> THEN Ok(<<>>)
    ELSE LET parameters == TokenParameters(mapping, Head(tokens))
             rest == ProcessTokens(mapping, Tail(tokens), idx + 1)
         IN  IF parameters.exc /= "none" THEN parameters
             ELSE IF rest.exc /= "none" THEN rest
             ELSE Ok(<<ConlluToken(Head(tokens).text, idx, parameters.val)>> \o rest.val)

\* the sentence loop of _process: sentences are [text, token_infos], the
\* sentence of split_by_sentence with what the analyzer answers for it
RECURSIVE ProcessSentences(_, _, _)
ProcessSentences(mapping, sentences, sent_idx) ==
    IF sentences = <<>> THEN Ok(<<>>)
    ELSE LET conllu_tokens == ProcessTokens(mapping, KeptTokens(Head(sentences).token_infos), 1)
             rest == ProcessSentences(mapping, Tail(sentences), sent_idx + 1)
         IN  IF conllu_tokens.exc /= "none" THEN conllu_tokens
             ELSE IF rest.exc /= "none" THEN rest
             ELSE Ok(<<[position |-> sent_idx, text |-> Head(sentences).text,
                        tokens |-> conllu_tokens.val]>> \o rest.val)

\* MorphologicalAnalysisPipeline._process
process(mapping, sentences) == ProcessSentences(mapping, sentences, 0)

-----------------------------------------------------------------------------
(* What the analyzer answers, and the tokens the functions are called on *)

\* the most tokens the analyzer answers for one sentence
MaxTokens == 2
\* the largest position of a token that is serialized on its own
MaxPosition == 11

\* the texts of the analyzer's tokens: what re.sub(r'[^.\w\s]', '', sentence)
\* leaves is made of '.', word characters and whitespace
SurfaceForms ==
    {<<".">>, <<".", "\n">>, <<".", "\t">>, <<" ">>, <<"4", "2">>, <<"4", "2", " ">>,
     <<"a", "b">>, <<".", ".">>}

\* the 'analysis' of a token: none, or one candidate [lex, gr]
Analyses ==
    {<<>>} \cup
    {<<[lex |-> <<"a", "b">>, gr |-> gr]>> :
        gr \in {s_S \o <<",">> \o s_m \o <<"=">> \o s_nom,
                s_APRO \o <<"=">> \o s_nom,
                s_Q \o <<",">> \o s_sg,
                s_PR}}

TokenInfos == [text : SurfaceForms, analysis : Analyses]

TokenInfoSeqs == UNION {[1..n -> TokenInfos] : n \in 0..MaxTokens}

InitProcess ==
    /\ mapping_info \in MappingTables
    /\ u_in \in [token_infos : TokenInfoSeqs]
    /\ u_pc = "ready"
    /\ u_ret = <<>>

\* _process of a text of one sentence
CallProcess ==
    /\ u_pc = "ready"
    /\ u_pc' = "_process"
    /\ u_ret' = process(mapping_info, <<[text |-> <<>>, token_infos |-> u_in.token_infos]>>)
    /\ UNCHANGED <<mapping_info, u_in>>

NextProcess == CallProcess /\ UNCHANGED <<corpus_vars, run_vars, crawler_vars>>

\* a pipeline with its converter, before _process is called
InitProcessOnly == CorpusOff /\ RunOff /\ CrawlerOff /\ InitProcess

SpecProcess == InitProcessOnly /\ [][NextProcess]_vars

PosLabels == {s_NOUN, s_PUNCT, <<>>}
FeatureStrings == {<<>>, s_Case \o <<"=">> \o s_Nom, <<"_">>}

Tokens ==
    {ConlluToken(text, position, MorphologicalTokenDTO(lemma, pos, tags)) :
        text \in SurfaceForms, position \in {1, MaxPosition},
        lemma \in {<<>>, <<"a", "b">>}, pos \in PosLabels, tags \in FeatureStrings}

InitToken ==
    /\ mapping_info = <<>>
    /\ u_in \in [token : Tokens, include_morphological_tags : BOOLEAN]
    /\ u_pc = "ready"
    /\ u_ret = <<>>

CallTokenGetConlluText ==
    /\ u_pc = "ready"
    /\ u_pc' = "get_conllu_text"
    /\ u_ret' = token_get_conllu_text(u_in.token, u_in.include_morphological_tags)
    /\ UNCHANGED <<mapping_info, u_in>>

NextToken == CallTokenGetConlluText /\ UNCHANGED <<corpus_vars, run_vars, crawler_vars>>

\* a token with its parameters set, nothing else in use
InitTokenOnly == CorpusOff /\ RunOff /\ CrawlerOff /\ InitToken

SpecToken == InitTokenOnly /\ [][NextToken]_vars

-----------------------------------------------------------------------------
(* ConlluToken.get_cleaned, ConlluSentence *)

UpperCase ==
    <<"A", "B", "C", "D", "E", "F", "G", "H", "I", "J", "K", "L", "M",
      "N", "O", "P", "Q", "R", "S", "T", "U", "V", "W", "X", "Y", "Z">>
LowerCase ==
    <<"a", "b", "c", "d", "e", "f", "g", "h", "i", "j", "k", "l", "m",
      "n", "o", "p", "q", "r", "s", "t", "u", "v", "w", "x", "y", "z">>

\* ConlluToken.get_cleaned: re.sub(r'[^\w\s]', '', text) keeps the word characters
\* (letters, digits, the underscore) and the whitespace; lower() maps the letters
get_cleaned(token) ==
    LET word_chars == Range(UpperCase) \cup Range(LowerCase) \cup Range(Digits) \cup {"_"}
        kept == SelectSeq(token.text, LAMBDA ch : ch \in word_chars \cup Whitespace)
    IN  [i \in 1..Len(kept) |->
            IF kept[i] \in Range(UpperCase)
            THEN LowerCase[CHOOSE k \in 1..Len(UpperCase) : UpperCase[k] = kept[i]]
            ELSE kept[i]]

\* ConlluSentence(position, text, tokens)
ConlluSentence(position, text, tokens) ==
    [position |-> position, text |-> text, tokens |-> tokens]

\* ConlluSentence._format_tokens
format_tokens(sentence, include_morphological_tags) ==
    Join([i \in 1..Len(sentence.tokens) |->
             token_get_conllu_text(sentence.tokens[i], include_morphological_tags)],
         <<"\n">>)

s_sent_id == <<"#", " ", "s", "e", "n", "t", "_", "i", "d", " ", "=", " ">>
s_text == <<"#", " ", "t", "e", "x", "t", " ", "=", " ">>

\* ConlluSentence.get_conllu_text
sentence_get_conllu_text(sentence, include_morphological_tags) ==
    s_sent_id \o IntToStr(sentence.position) \o <<"\n">>
    \o s_text \o sentence.text \o <<"\n">>
    \o format_tokens(sentence, include_morphological_tags) \o <<"\n">>

\* the cleaned forms of the tokens, in order
CleanedForms(tokens) == [i \in 1..Len(tokens) |-> get_cleaned(tokens[i])]

\* ConlluSentence.get_cleaned_sentence
get_cleaned_sentence(sentence) == Join(NonEmpty(CleanedForms(sentence.tokens)), <<" ">>)

\* the sentences that are built on their own: tokens numbered from 1 as _process
\* numbers them, their surface forms and their parameters from small sets
Sentences ==
    LET texts ==
            {<<".">>, <<".", ".", ".">>, <<"u2014">>, <<"u00AB">>, <<"-">>, <<"_">>,
             <<".", "\n">>, <<"A", "b">>, <<"a", "b">>, <<"4", "2">>, <<"a", ".", "b">>}
        dtos ==
            {MorphologicalTokenDTO(<<"a", "b">>, s_NOUN, s_Case \o <<"=">> \o s_Nom),
             MorphologicalTokenDTO(<<>>, s_X, <<>>)}
        token_seqs ==
            UNION {{[i \in 1..n |-> ConlluToken(text_of[i], i, dto_of[i])] :
                       text_of \in [1..n -> texts], dto_of \in [1..n -> dtos]} :
                   n \in 0..MaxTokens}
    IN  {ConlluSentence(position, <<"a", "b", ".">>, tokens) :
            position \in {0, 10}, tokens \in token_seqs}

\* sentence.get_conllu_text(include_morphological_tags)
CallSentenceGetConlluText ==
    /\ u_pc = "ready"
    /\ u_pc' = "sentence_get_conllu_text"
    /\ u_ret' = sentence_get_conllu_text(u_in.sentence, u_in.include_morphological_tags)
    /\ UNCHANGED <<mapping_info, u_in>>

\* token.get_cleaned() of one token of the sentence
CallGetCleaned ==
    /\ u_pc = "ready"
    /\ \E i \in 1..Len(u_in.sentence.tokens) :
          /\ u_in' = [token |-> u_in.sentence.tokens[i]]
          /\ u_ret' = get_cleaned(u_in.sentence.tokens[i])
    /\ u_pc' = "get_cleaned"
    /\ UNCHANGED mapping_info

\* sentence.get_cleaned_sentence()
CallGetCleanedSentence ==
    /\ u_pc = "ready"
    /\ u_pc' = "get_cleaned_sentence"
    /\ u_ret' = get_cleaned_sentence(u_in.sentence)
    /\ UNCHANGED <<mapping_info, u_in>>

NextSentence ==
    \/ CallSentenceGetConlluText /\ UNCHANGED <<corpus_vars, run_vars, crawler_vars>>
    \/ CallGetCleaned /\ UNCHANGED <<corpus_vars, run_vars, crawler_vars>>
    \/ CallGetCleanedSentence /\ UNCHANGED <<corpus_vars, run_vars, crawler_vars>>

\* a sentence with its tokens, nothing else in use
InitSentenceOnly ==
    /\ CorpusOff /\ RunOff /\ CrawlerOff
    /\ mapping_info = <<>>
    /\ u_in \in [sentence : Sentences, include_morphological_tags : BOOLEAN]
    /\ u_pc = "ready"
    /\ u_ret = <<>>

SpecSentence == InitSentenceOnly /\ [][NextSentence]_vars

-----------------------------------------------------------------------------
(* ConlluToken and _process: the claims *)

\* the token infos the token loop of the call ran over
Kept == KeptTokens(u_in.token_infos)

\* text without its leading and trailing whitespace
Stripped(text) ==
    LET inside == {i \in 1..Len(text) : text[i] \notin {" ", "\t", "\n"}}
    IN  IF inside = {} THEN <<>>
        ELSE SubSeq(text, CHOOSE i \in inside : \A j \in inside : i <= j,
                          CHOOSE i \in inside : \A j \in inside : i >= j)

OnlyDigits(text) ==
    /\ text /= <<>>
    /\ \A i \in 1..Len(text) : text[i] \in {"0", "1", "2", "3", "4", "5", "6", "7", "8", "9"}

\* C9 as stated: a token with no analysis is PUNCT if it is exactly '.', NUM if
\* it is only digits and X otherwise, its lemma is its surface form and it has
\* no features.
C9_FallbackOnSurfaceForm ==
    (u_pc = "_process" /\ u_ret.exc = "none")
    => \A i \in 1..Len(Kept) :
          Kept[i].analysis = <<>>
          => LET token == u_ret.val[1].tokens[i]
             IN  /\ token.parameters.pos =
                        (IF token.text = <<".">> THEN s_PUNCT
                         ELSE IF OnlyDigits(token.text) THEN s_NUM
                         ELSE s_X)
                 /\ token.parameters.lemma = token.text
                 /\ token.parameters.tags = <<>>

\* C9 amended: a token with no analysis is PUNCT if its surface form without the
\* surrounding whitespace is '.', NUM if its surface form as it stands is only
\* digits and X otherwise; its lemma is its surface form without the surrounding
\* whitespace and it has no features.
C9_FallbackOnStrippedForm ==
    (u_pc = "_process" /\ u_ret.exc = "none")
    => \A i \in 1..Len(Kept) :
          Kept[i].analysis = <<>>
          => LET token == u_ret.val[1].tokens[i]
             IN  /\ token.text = Kept[i].text
                 /\ token.parameters.pos =
                        (IF Stripped(token.text) = <<".">> THEN s_PUNCT
                         ELSE IF OnlyDigits(token.text) THEN s_NUM
                         ELSE s_X)
                 /\ token.parameters.lemma = Stripped(token.text)
                 /\ token.parameters.tags = <<>>

\* '42' and '.\n' with no analysis: NUM with lemma '42', PUNCT with lemma '.'
C9_Witness ==
    /\ u_pc = "_process"
    /\ u_ret.exc = "none"
    /\ Len(u_ret.val[1].tokens) = 2
    /\ u_ret.val[1].tokens[1] =
           ConlluToken(<<"4", "2">>, 1, MorphologicalTokenDTO(<<"4", "2">>, s_NUM, <<>>))
    /\ u_ret.val[1].tokens[2] =
           ConlluToken(<<".", "\n">>, 2, MorphologicalTokenDTO(<<".">>, s_PUNCT, <<>>))

\* C10: the 6th tab-separated field of a token line is '_' when
\* include_features is false, whatever the stored feature string; when it is
\* true the field is the stored feature string, or '_' if that string is empty.
C10_FeaturesColumn ==
    u_pc = "get_conllu_text"
    => SplitOn(u_ret, {"\t"})[6] =
           (IF u_in.include_morphological_tags /\ u_in.token.parameters.tags /= <<>>
            THEN u_in.token.parameters.tags
            ELSE <<"_">>)

\* C13: in every sentence _process returns, a token whose part of speech is
\* PUNCT or X has an empty feature string, whether the part of speech is the
\* fallback one or the conversion of an analyzer tag.
C13_PunctAndXHaveNoFeatures ==
    (u_pc = "_process" /\ u_ret.exc = "none")
    => \A s \in 1..Len(u_ret.val) :
          \A i \in 1..Len(u_ret.val[s].tokens) :
             u_ret.val[s].tokens[i].parameters.pos \in {s_PUNCT, s_X}
             => u_ret.val[s].tokens[i].parameters.tags = <<>>

\* a token the converter made X followed by a token the fallback rule made PUNCT
C13_Witness ==
    /\ u_pc = "_process"
    /\ u_ret.exc = "none"
    /\ Len(Kept) = 2
    /\ Kept[1].analysis /= <<>>
    /\ Kept[2].analysis = <<>>
    /\ u_ret.val[1].tokens[1].parameters = MorphologicalTokenDTO(<<"a", "b">>, s_X, <<>>)
    /\ u_ret.val[1].tokens[2].parameters = MorphologicalTokenDTO(<<".">>, s_PUNCT, <<>>)

-----------------------------------------------------------------------------
(* ConlluSentence: the claims *)

\* the ten fields of the line of a token
TokenFields(token, include_morphological_tags) ==
    <<IntToStr(token.position), token.text, token.parameters.lemma, token.parameters.pos,
      <<"_">>,
      IF include_morphological_tags /\ token.parameters.tags /= <<>>
      THEN token.parameters.tags ELSE <<"_">>,
      <<"0">>, s_root, <<"_">>, <<"_">>>>

\* C11: get_conllu_text of a sentence, one with no tokens included, is the
\* sent_id header line, the text header line, then exactly one line of ten
\* tab-separated fields per token in token order, and ends with exactly one
\* newline: no blank line follows the last line.
C11_SentenceLines ==
    u_pc = "sentence_get_conllu_text"
    => LET tokens == u_in.sentence.tokens
           lines == SplitOn(u_ret, {"\n"})
       IN  /\ Len(lines) = Len(tokens) + 3
           /\ lines[1] = s_sent_id \o IntToStr(u_in.sentence.position)
           /\ lines[2] = s_text \o u_in.sentence.text
           /\ \A i \in 1..Len(tokens) :
                 SplitOn(lines[2 + i], {"\t"}) =
                     TokenFields(tokens[i], u_in.include_morphological_tags)
           /\ lines[Len(lines)] = <<>>

\* ASCII punctuation, typographic quotes and dashes
Punctuation == {"#", "(", ")", ",", "-", ".", "=", "_", "|", "u00AB", "u00BB", "u2014"}

PunctuationOnly(text) ==
    text /= <<>> /\ \A i \in 1..Len(text) : text[i] \in Punctuation

\* the tokens of the sentence that are not made of punctuation only
RECURSIVE RemainingTokens(_)
RemainingTokens(tokens) ==
    IF tokens = <<>> THEN <<>>
    ELSE (IF PunctuationOnly(Head(tokens).text) THEN <<>> ELSE <<Head(tokens)>>)
         \o RemainingTokens(Tail(tokens))

\* C12: a token whose surface form is made of punctuation characters only
\* ('_' among them) has get_cleaned() == ''; get_cleaned_sentence() is the
\* non-empty cleaned forms of the other tokens, in order, joined by one space.
C12_PunctuationCleaned ==
    /\ u_pc = "get_cleaned"
       => (PunctuationOnly(u_in.token.text) => u_ret = <<>>)
    /\ u_pc = "get_cleaned_sentence"
       => u_ret = Join(NonEmpty(CleanedForms(RemainingTokens(u_in.sentence.tokens))),
                       <<" ">>)

-----------------------------------------------------------------------------
(* MorphologicalAnalysisPipeline.run *)

\* the most documents of the corpus the pipeline runs over
MaxDocs == 2

\* the three files run writes for an article
OutputKinds == {"cleaned", "pos_conllu", "morphological_conllu"}

\* what split_by_sentence and the analyzer answer for the raw text of a document
DocAnalyses ==
    LET word(gr) == [text |-> <<"a", "b">>, analysis |-> <<[lex |-> <<"a", "b">>, gr |-> gr]>>]
        bare(text) == [text |-> text, analysis |-> <<>>]
        sentence(token_infos) == [text |-> <<"a", "b", ".">>, token_infos |-> token_infos]
    IN  {<<>>,
         <<sentence(<<word(s_S \o <<",">> \o s_m \o <<"=">> \o s_nom), bare(<<".", "\n">>)>>)>>,
         <<sentence(<<bare(<<"4", "2">>), bare(<<".">>)>>),
           sentence(<<word(s_PR), bare(<<".">>)>>)>>,
         <<sentence(<<word(s_Q \o <<",">> \o s_sg), bare(<<".">>)>>)>>,
         <<sentence(<<word(s_S), bare(<<".">>)>>),
           sentence(<<word(s_APRO \o <<"=">> \o s_nom), bare(<<".">>)>>)>>}

\* the directory of a valid corpus of n documents
CorpusOf(n) ==
    {[stem |-> <<i>>, kind |-> kind, content |-> <<"a">>] : i \in 1..n, kind \in Kinds}

\* the ids of the values of a dict, in the order of iteration
RECURSIVE ArticleIds(_)
ArticleIds(d) ==
    IF d = <<>> THEN <<>> ELSE <<Head(d).value.article_id>> \o ArticleIds(Tail(d))

\* main(): a CorpusManager constructed on a valid corpus, the pipeline
\* constructed on it with its mapping table loaded, run about to start
Init ==
    /\ path_kind = "dir"
    /\ \E n \in 1..MaxDocs :
          /\ dir_files = CorpusOf(n)
          /\ \E order \in Orders(Glob(CorpusOf(n), "raw")) :
                storage = ScanDataset(order, <<>>)
    /\ cm_pc = "constructed"
    /\ cm_error = ValidateDataset(path_kind, dir_files)
    /\ mapping_info \in MappingTables
    /\ u_in = <<>> /\ u_pc = "off" /\ u_ret = <<>>
    /\ run_pc = "process"
    /\ run_article = Head(ArticleIds(get_articles))
    /\ run_todo = Tail(ArticleIds(get_articles))
    /\ run_error = "none"
    /\ run_sentences = <<>>
    /\ conllu_sentences = <<>>
    /\ written = {}
    /\ CrawlerOff

\* an exception leaves run: nothing catches it
RunRaises(e) ==
    /\ run_pc' = "aborted"
    /\ run_error' = e
    /\ UNCHANGED <<run_todo, run_article>>

\* the for loop takes the next article, or ends
NextArticle ==
    IF run_todo = <<>>
    THEN /\ run_pc' = "done"
         /\ UNCHANGED <<run_todo, run_article>>
    ELSE /\ run_pc' = "process"
         /\ run_article' = Head(run_todo)
         /\ run_todo' = Tail(run_todo)

\* _process up to its loop: sentences = split_by_sentence(text)
RunSegment ==
    /\ run_pc = "process"
    /\ \E sentences \in DocAnalyses :
          run_sentences' = DictPut(run_sentences, run_article, sentences)
    /\ run_pc' = "analyze"
    /\ UNCHANGED <<run_todo, run_article, run_error, conllu_sentences, written>>

\* the loop of _process over the sentences, and
\* article.set_conllu_sentences(...) of what it returns
RunAnalyze ==
    /\ run_pc = "analyze"
    /\ LET result == process(mapping_info, DictValue(run_sentences, run_article))
       IN  IF result.exc /= "none"
           THEN /\ RunRaises(result.exc)
                /\ UNCHANGED conllu_sentences
           ELSE /\ conllu_sentences' = DictPut(conllu_sentences, run_article, result.val)
                /\ run_pc' = "to_cleaned"
                /\ UNCHANGED <<run_todo, run_article, run_error>>
    /\ UNCHANGED <<run_sentences, written>>

\* one write of run: the file is written, or the write raises OSError
WriteFile(kind, then_pc) ==
    \E succeeds \in BOOLEAN :
        IF succeeds
        THEN /\ written' = written \cup {<<run_article, kind>>}
             /\ run_pc' = then_pc
             /\ UNCHANGED <<run_todo, run_article, run_error>>
        ELSE /\ RunRaises("OSError")
             /\ UNCHANGED written

\* the variant with features written where the cleaned text is due
RunToCleanedTagsFirst ==
    /\ run_pc = "to_cleaned"
    /\ WriteFile("morphological_conllu", "to_conllu")
    /\ UNCHANGED <<run_sentences, conllu_sentences>>

\* to_cleaned(article)
RunToCleaned ==
    /\ run_pc = "to_cleaned"
    /\ WriteFile("cleaned", "to_conllu")
    /\ UNCHANGED <<run_sentences, conllu_sentences>>

\* to_conllu(article, include_morphological_tags=False, include_pymorphy_tags=False)
RunToConllu ==
    /\ run_pc = "to_conllu"
    /\ WriteFile("pos_conllu", "to_conllu_tags")
    /\ UNCHANGED <<run_sentences, conllu_sentences>>

\* to_conllu(article, include_morphological_tags=True, include_pymorphy_tags=False)
\* and the step of the for loop to the next article
RunToConlluTags ==
    /\ run_pc = "to_conllu_tags"
    /\ \E succeeds \in BOOLEAN :
          IF succeeds
          THEN /\ written' = written \cup {<<run_article, "morphological_conllu">>}
               /\ NextArticle
               /\ UNCHANGED run_error
          ELSE /\ RunRaises("OSError")
               /\ UNCHANGED written
    /\ UNCHANGED <<run_sentences, conllu_sentences>>

Next ==
    \/ RunSegment /\ UNCHANGED <<corpus_vars, unit_vars, crawler_vars>>
    \/ RunAnalyze /\ UNCHANGED <<corpus_vars, unit_vars, crawler_vars>>
    \/ RunToCleaned /\ UNCHANGED <<corpus_vars, unit_vars, crawler_vars>>
    \/ RunToConllu /\ UNCHANGED <<corpus_vars, unit_vars, crawler_vars>>
    \/ RunToConlluTags /\ UNCHANGED <<corpus_vars, unit_vars, crawler_vars>>

Spec == Init /\ [][Next]_vars

-----------------------------------------------------------------------------
(* MorphologicalAnalysisPipeline.run: the claims *)

FilesOf(id) == {kind \in OutputKinds : <<id, kind>> \in written}
RunEnded == run_pc \in {"done", "aborted"}

\* the iteration of the article has ended: run went on to the next, or ended
ProcessingEnded(id) ==
    /\ \A i \in 1..Len(run_todo) : run_todo[i] /= id
    /\ (id /= run_article \/ RunEnded)

\* C3: a failure while processing one document aborts that document only: run
\* still processes and serializes every other document of the corpus.
C3_FailureAbortsOneDocument ==
    RunEnded
    => \A id \in DictKeys(storage) :
          (run_error = "none" \/ id /= run_article) => FilesOf(id) = OutputKinds

\* C5: once the processing of a document has ended it has all three of its
\* output files or none of them.
C5_AllOutputFilesOrNone ==
    \A id \in DictKeys(storage) :
        ProcessingEnded(id) => FilesOf(id) \in {{}, OutputKinds}

\* the stage of a document: 1 Loaded, 2 Segmented, 3 Analyzed, 4 Serialized
Stage(id) ==
    IF FilesOf(id) /= {} THEN 4
    ELSE IF id \in DictKeys(conllu_sentences) THEN 3
    ELSE IF id \in DictKeys(run_sentences) THEN 2
    ELSE 1

\* the place of a document in the order run takes the documents in
PlaceOf(id) == CHOOSE i \in 1..Len(storage) : storage[i].value.article_id = id

\* the files a document has are the first ones of cleaned, CONLL-U without
\* features, CONLL-U with features
WrittenInOrder(id) ==
    FilesOf(id) \in {{}, {"cleaned"}, {"cleaned", "pos_conllu"}, OutputKinds}

\* C14: every step of run leaves each document in its stage or moves it to the
\* next of Loaded, Segmented, Analyzed, Serialized, never back; the files of a
\* document appear one at a time in the order cleaned text, CONLL-U without
\* features, CONLL-U with features; and a document has left Loaded only when
\* every document before it is Serialized.
C14_StagesInOrder ==
    [][\A id \in DictKeys(storage) :
          /\ Stage(id)' \in {Stage(id), Stage(id) + 1}
          /\ FilesOf(id) \subseteq FilesOf(id)'
          /\ Cardinality(FilesOf(id)' \ FilesOf(id)) <= 1
          /\ WrittenInOrder(id)'
          /\ \A other \in DictKeys(storage) :
                (PlaceOf(id) < PlaceOf(other) /\ Stage(other)' > 1) => Stage(id)' = 4]_vars

\* run ended over two documents, both with their three files
C14_Witness ==
    /\ run_pc = "done"
    /\ Len(storage) = 2
    /\ \A id \in DictKeys(storage) : Stage(id) = 4 /\ FilesOf(id) = OutputKinds

-----------------------------------------------------------------------------
(* Crawler, CrawlerRecursive *)

\* the most seed urls of the configuration
MaxSeeds == 3
\* the most links of one page
MaxLinks == 2
\* the largest total_articles of the configuration
MaxArticles == 2

s_site == <<"h", "t", "t", "p", "s", ":", "/", "/", "7", "4", ".", "r", "u">>
s_text_dir == <<"/", "t", "e", "x", "t", "/">>
s_longread == <<"l", "o", "n", "g", "r", "e", "a", "d">>

\* str.startswith
StartsWith(str, prefix) ==
    Len(str) >= Len(prefix) /\ SubSeq(str, 1, Len(prefix)) = prefix

\* str.count of one character
CountChar(c, str) == Cardinality({i \in 1..Len(str) : str[i] = c})

\* x in list
Contains(list, x) == \E i \in 1..Len(list) : list[i] = x

\* Crawler._extract_url
extract_url(href) ==
    IF StartsWith(href, s_text_dir) THEN s_site \o href
    ELSE IF StartsWith(href, s_site) THEN href
    ELSE <<>>

\* re.match(r'^https://74.ru/text/(?!longread)', url): the '.' of the pattern
\* is any character but a newline
MatchesArticlePattern(url) ==
    LET https74 == <<"h", "t", "t", "p", "s", ":", "/", "/", "7", "4">>
        ru_text == <<"r", "u", "/", "t", "e", "x", "t", "/">>
        dot == Len(https74) + 1
        head == dot + Len(ru_text)
    IN  /\ Len(url) >= head
        /\ SubSeq(url, 1, Len(https74)) = https74
        /\ url[dot] /= "\n"
        /\ SubSeq(url, dot + 1, head) = ru_text
        /\ ~StartsWith(SubSeq(url, head + 1, Len(url)), s_longread)

\* the condition of Crawler.find_articles without its last conjunct
CrawlerAcceptsAnyNumber(url, url_list, limit) ==
    /\ url /= <<>>
    /\ MatchesArticlePattern(url)
    /\ ~Contains(url_list, url)
    /\ CountChar("/", url) = 9

\* the condition of Crawler.find_articles under which url is appended to url_list
CrawlerAccepts(url, url_list, limit) ==
    /\ url /= <<>>
    /\ MatchesArticlePattern(url)
    /\ ~Contains(url_list, url)
    /\ CountChar("/", url) = 9
    /\ Len(url_list) < limit

\* the href values of the links of the pages
Hrefs ==
    LET heads ==
            {s_text_dir, s_site \o s_text_dir, s_site \o <<"/">>,
             <<"h", "t", "t", "p", "s", ":", "/", "/", "7", "4", "x", "r", "u">> \o s_text_dir}
        tails ==
            {<<"a", "/", "b", "/", "c", "/", "d", "/", "e", "/">>,
             <<"y", "/", "b", "/", "c", "/", "d", "/", "e", "/">>,
             <<"z", "/", "b", "/", "c", "/", "d", "/", "e", "/">>,
             s_longread \o <<"/", "b", "/", "c", "/", "d", "/", "e", "/">>,
             <<"a", "/", "b", "/">>}
    IN  {<<>>} \cup {head \o tail : head \in heads, tail \in tails}

\* what make_request ends with: a response, or the exception it raises
RequestOutcomes == {"response", "HTTPError", "ConnectionError"}

\* the for loop takes the next seed url and requests it: the page is fetched,
\* the seed is skipped on HTTPError, any other exception leaves find_articles
CrawlerNextSeed ==
    /\ crawler_pc = "seed"
    /\ IF seeds_left = 0
       THEN /\ crawler_pc' = "done"
            /\ UNCHANGED <<crawler_error, seeds_left, links_left>>
       ELSE /\ seeds_left' = seeds_left - 1
            /\ \E outcome \in RequestOutcomes :
                  IF outcome = "response"
                  THEN /\ crawler_pc' = "links"
                       /\ links_left' \in 0..MaxLinks
                       /\ UNCHANGED crawler_error
                  ELSE IF outcome = "HTTPError"
                  THEN /\ crawler_pc' = "seed"
                       /\ UNCHANGED <<crawler_error, links_left>>
                  ELSE /\ crawler_pc' = "failed"
                       /\ crawler_error' = outcome
                       /\ UNCHANGED links_left
    /\ UNCHANGED <<num_articles, urls, article_urls, last_index, crawler_data>>

\* the body of the loop over the links of the page, for one link
CrawlerLink ==
    /\ crawler_pc = "links"
    /\ links_left > 0
    /\ links_left' = links_left - 1
    /\ \E href \in Hrefs :
          LET url == extract_url(href)
          IN  urls' = IF CrawlerAccepts(url, urls, num_articles)
                      THEN Append(urls, url)
                      ELSE urls
    /\ UNCHANGED <<crawler_pc, crawler_error, num_articles, seeds_left, article_urls,
                   last_index, crawler_data>>

\* the loop over the links ends
CrawlerEndPage ==
    /\ crawler_pc = "links"
    /\ links_left = 0
    /\ crawler_pc' = "seed"
    /\ UNCHANGED <<crawler_error, num_articles, seeds_left, links_left, urls, article_urls,
                   last_index, crawler_data>>

NextCrawler ==
    \/ CrawlerNextSeed /\ UNCHANGED <<corpus_vars, unit_vars, run_vars>>
    \/ CrawlerLink /\ UNCHANGED <<corpus_vars, unit_vars, run_vars>>
    \/ CrawlerEndPage /\ UNCHANGED <<corpus_vars, unit_vars, run_vars>>

\* main() up to crawler.find_articles(): Crawler(config) of a validated
\* configuration, nothing else in use
InitCrawlerOnly ==
    /\ CorpusOff /\ UnitOff /\ RunOff
    /\ crawler_pc = "seed"
    /\ crawler_error = "none"
    /\ num_articles \in 1..MaxArticles
    /\ seeds_left \in 0..MaxSeeds
    /\ links_left = 0
    /\ urls = <<>>
    /\ article_urls = <<>>
    /\ last_index = 0
    /\ crawler_data = <<>>

SpecCrawler == InitCrawlerOnly /\ [][NextCrawler]_vars

\* _save_crawler_data: what json.dump writes
SavedData(index, url_list, article_list) ==
    <<[last_file_index |-> 0, last_index |-> index, urls |-> url_list,
       article_urls |-> article_list]>>

\* make_request(self.urls[self.last_index], self.config): the index is past the
\* end of the list, or the request raises, or the page is fetched
RecursiveFetch ==
    /\ crawler_pc = "fetch"
    /\ IF last_index >= Len(urls)
       THEN /\ crawler_pc' = "failed"
            /\ crawler_error' = "IndexError"
            /\ UNCHANGED links_left
       ELSE \E outcome \in RequestOutcomes :
               IF outcome = "response"
               THEN /\ crawler_pc' = "links"
                    /\ links_left' \in 0..MaxLinks
                    /\ UNCHANGED crawler_error
               ELSE /\ crawler_pc' = "failed"
                    /\ crawler_error' = outcome
                    /\ UNCHANGED links_left
    /\ UNCHANGED <<num_articles, seeds_left, urls, article_urls, last_index, crawler_data>>

\* the body of the loop over the links of the page, for one link
RecursiveLink ==
    /\ crawler_pc = "links"
    /\ links_left > 0
    /\ links_left' = links_left - 1
    /\ \E href \in Hrefs :
          LET url == extract_url(href)
          IN  IF url /= <<>> /\ ~Contains(urls, url)
              THEN /\ urls' = Append(urls, url)
                   /\ article_urls' =
                          IF /\ MatchesArticlePattern(url)
                             /\ ~Contains(article_urls, url)
                             /\ CountChar("/", url) = 9
                             /\ Len(article_urls) < num_articles
                          THEN Append(article_urls, url)
                          ELSE article_urls
                   /\ crawler_data' = SavedData(last_index, urls', article_urls')
              ELSE UNCHANGED <<urls, article_urls, crawler_data>>
    /\ UNCHANGED <<crawler_pc, crawler_error, num_articles, seeds_left, last_index>>

\* after the loop: last_index += 1, the data is saved, and find_articles is
\* called again while urls is shorter than num_articles
RecursiveEndPage ==
    /\ crawler_pc = "links"
    /\ links_left = 0
    /\ last_index' = last_index + 1
    /\ crawler_data' = SavedData(last_index', urls, article_urls)
    /\ crawler_pc' = IF Len(urls) < num_articles THEN "fetch" ELSE "done"
    /\ UNCHANGED <<crawler_error, num_articles, seeds_left, links_left, urls, article_urls>>

NextCrawlerRecursive ==
    \/ RecursiveFetch /\ UNCHANGED <<corpus_vars, unit_vars, run_vars>>
    \/ RecursiveLink /\ UNCHANGED <<corpus_vars, unit_vars, run_vars>>
    \/ RecursiveEndPage /\ UNCHANGED <<corpus_vars, unit_vars, run_vars>>

\* main_recursive() up to recursive_crawler.find_articles(): CrawlerRecursive(config)
\* on the seed url 'https://74.ru/text/', with no crawler_data.json to load
InitCrawlerRecursiveOnly ==
    /\ CorpusOff /\ UnitOff /\ RunOff
    /\ crawler_pc = "fetch"
    /\ crawler_error = "none"
    /\ num_articles \in 1..MaxArticles
    /\ seeds_left = 0
    /\ links_left = 0
    /\ urls = <<s_site \o s_text_dir>>
    /\ article_urls = <<>>
    /\ last_index = 0
    /\ crawler_data = <<>>

SpecCrawlerRecursive == InitCrawlerRecursiveOnly /\ [][NextCrawlerRecursive]_vars

-----------------------------------------------------------------------------
(* Crawler, CrawlerRecursive: the claims *)

s_article_prefix ==
    <<"h", "t", "t", "p", "s", ":", "/", "/", "7", "4", ".", "r", "u",
      "/", "t", "e", "x", "t", "/">>

\* C15: whatever seed pages and links Crawler.find_articles has gone through
\* (seeds skipped on HTTP error among them), crawler.urls has no duplicate and
\* at most num_articles entries, and every entry starts with
\* 'https://74.ru/text/', does not go on with 'longread' and has exactly 9 '/'.
C15_UrlsAreArticles ==
    /\ \A i, j \in 1..Len(urls) : urls[i] = urls[j] => i = j
    /\ Len(urls) <= num_articles
    /\ \A i \in 1..Len(urls) :
          /\ StartsWith(urls[i], s_article_prefix)
          /\ ~StartsWith(urls[i], s_article_prefix \o s_longread)
          /\ Cardinality({k \in 1..Len(urls[i]) : urls[i][k] = "/"}) = 9

\* find_articles ended with as many urls as num_articles allows, more than one
C15_Witness ==
    /\ crawler_pc = "done"
    /\ num_articles = MaxArticles
    /\ Len(urls) = MaxArticles
    /\ article_urls = <<>>

\* C16: CrawlerRecursive.find_articles reads urls[last_index] only with
\* last_index < len(urls), also after pages that add no new url while urls is
\* shorter than num_articles: the crawl never ends by indexing past the end.
C16_IndexInRange ==
    /\ crawler_pc = "fetch" => last_index < Len(urls)
    /\ crawler_error /= "IndexError"

====
